---- MODULE Spec2Model ----
(***************************************************************************)
(* Model of the orchestration core of src/src/main.c: the signal handler,  *)
(* init_framework, cleanup, main_loop and main.  The exchange, the         *)
(* strategy and the web server are reached only through the function       *)
(* pointer tables of include/exchange.h and include/strategy.h; their      *)
(* return codes and the statistics the strategy keeps are therefore        *)
(* nondeterministic inputs of the model (Spec, FairSpec).  The strategy's  *)
(* own state machine has no implementation among the sources; it is        *)
(* modelled from its specification and driven by an arbitrary caller in    *)
(* StrategySpec.                                                            *)
(***************************************************************************)
EXTENDS Integers, Sequences, FiniteSets

(* ---- bounds of the model ---- *)
\* signals delivered in one run
MaxSignals == 2
\* largest total_trades the strategy reports
MaxTrades == 1
\* cap of the ghost counter of consecutive cycles in which both polls failed
MaxStreak == 2
\* cap of the ghost counters of calls started after the flag was cleared
MaxPost == 2
\* terminal order events delivered to the strategy
MaxOrders == 3
\* cap of the ghost counter of place_order calls
MaxPlaced == 2

(* ---- program constants ---- *)
SIGINT == 2
SIGTERM == 15
Signals == {SIGINT, SIGTERM}

NULL == "NULL"
PTR == "ptr"
Pointers == {NULL, PTR}

\* values an int-returning port call may return; 0 is success
RcVals == {-1, 0, 1}

\* profits are counted in eighths (exactly representable doubles, so that
\* "%.2f" is decided by round-half-to-even on the exact value)
ProfitVals == {-1, 0, 3}
StatsSet == [total_profit : ProfitVals, daily_profit : ProfitVals, total_trades : 0..MaxTrades]
ZeroStats == [total_profit |-> 0, daily_profit |-> 0, total_trades |-> 0]

VARIABLES
  pc,          \* position of the main thread
  ret,         \* value main is about to return
  exit_code,   \* {} while the process runs, then {main's return value}
  g_running,   \* static int g_running
  g_exchange,  \* the three global instance pointers
  g_strategy,
  g_webserver,
  handlers,    \* signals whose disposition is handle_signal
  nsig,        \* signals delivered so far
  depth,       \* main_loop's depth buffer
  account,     \* main_loop's account buffer
  d_rc,        \* {result of this cycle's get_depth}, {} before the call
  a_rc,        \* {result of this cycle's get_account}, {} before the call
  stats,       \* main_loop's block-local stats: {} uninitialized, else {value}
  status,      \* main_loop's block-local status text: {} uninitialized, else {text}
  tick_arg,    \* state of the depth buffer on_tick last received
  acct_arg,    \* state of the account buffer on_account last received
  sent,        \* text handed to the last broadcast of this cycle
  st_stats,    \* the statistics the strategy keeps (private_data), {} before init
  log,         \* create/init/start/cleanup/destroy calls made so far
  calls,       \* port calls of the current cycle, in order
  flip_pc,     \* where the main thread was when g_running was cleared
  fail_streak, \* consecutive completed cycles in which both polls failed
  post_depth,  \* get_depth calls started after g_running was cleared
  post_bcast,  \* broadcast calls started after g_running was cleared
  st_state,          \* strategy_state_t of the strategy, "none" before init
  successful_trades, \* strategy_stats_t.successful_trades
  last_op,           \* the last operation made on the strategy
  prev_op,           \* the one before it
  from_state,        \* st_state when the last operation began
  last_rc,           \* what the last init / start / stop / on_tick returned
  placed,            \* place_order calls the strategy has made
  n_fin,             \* on_order events with is_finished delivered
  n_live             \* those of them delivered outside STRATEGY_ERROR

vars == <<pc, ret, exit_code, g_running, g_exchange, g_strategy, g_webserver,
          handlers, nsig, depth, account, d_rc, a_rc, stats, status, tick_arg,
          acct_arg, sent, st_stats, log, calls, flip_pc, fail_streak,
          post_depth, post_bcast, st_state, successful_trades, last_op,
          prev_op, from_state, last_rc, placed, n_fin, n_live>>

globals == <<g_running, g_exchange, g_strategy, g_webserver>>
sigVars == <<handlers, nsig, flip_pc>>
postVars == <<post_depth, post_bcast>>
loopVars == <<depth, account, d_rc, a_rc, stats, status, tick_arg, acct_arg,
              sent, calls, fail_streak, postVars>>

\* everything of the orchestration core but the strategy's statistics
coreVars == <<pc, ret, exit_code, globals, sigVars, loopVars, log>>
\* the strategy behind the port, statistics apart
stratVars == <<st_state, successful_trades, last_op, prev_op, from_state,
               last_rc, placed, n_fin, n_live>>

CyclePcs == {"get_depth", "on_tick", "get_account", "on_account", "get_stats",
             "snprintf", "broadcast", "usleep"}

Init ==
  /\ pc = "signal_int"
  /\ ret = 0
  /\ exit_code = {}
  /\ g_running = 1
  /\ g_exchange = NULL
  /\ g_strategy = NULL
  /\ g_webserver = NULL
  /\ handlers = {}
  /\ nsig = 0
  /\ depth = "uninit"
  /\ account = "uninit"
  /\ d_rc = {}
  /\ a_rc = {}
  /\ stats = {}
  /\ status = {}
  /\ tick_arg = "none"
  /\ acct_arg = "none"
  /\ sent = {}
  /\ st_stats = {}
  /\ log = <<>>
  /\ calls = <<>>
  /\ flip_pc = "none"
  /\ fail_streak = 0
  /\ post_depth = 0
  /\ post_bcast = 0
  /\ st_state = "none"
  /\ successful_trades = 0
  /\ last_op = "none"
  /\ prev_op = "none"
  /\ from_state = "none"
  /\ last_rc = "none"
  /\ placed = 0
  /\ n_fin = 0
  /\ n_live = 0

\* one entry of log: component, operation, whether it succeeded
Call(c, op, ok) == [c |-> c, op |-> op, ok |-> ok]

(* ---- signals ---- *)

\* mutant: the handler toggles the flag instead of clearing it
handle_signal_toggle(sig) ==
  g_running' = 1 - g_running

\* handle_signal: logs the signal and clears the flag
handle_signal(sig) ==
  g_running' = 0

\* a termination signal arrives: handled once signal() has installed the
\* handler for it, otherwise the default disposition ends the process
deliver_signal(sig) ==
  /\ pc \notin {"exited", "killed"}
  /\ UNCHANGED stratVars
  /\ nsig < MaxSignals
  /\ nsig' = nsig + 1
  /\ \/ /\ sig \in handlers
        /\ handle_signal(sig)
        /\ flip_pc' = IF g_running # 0 /\ g_running' = 0 THEN pc ELSE flip_pc
        /\ UNCHANGED <<pc, ret, exit_code, g_exchange, g_strategy, g_webserver,
                       handlers, loopVars, st_stats, log>>
     \/ /\ sig \notin handlers
        /\ pc' = "killed"
        /\ UNCHANGED <<ret, exit_code, globals, handlers, flip_pc, loopVars,
                       st_stats, log>>

main_signal_int ==
  /\ pc = "signal_int"
  /\ UNCHANGED stratVars
  /\ handlers' = handlers \cup {SIGINT}
  /\ pc' = "signal_term"
  /\ UNCHANGED <<ret, exit_code, globals, nsig, flip_pc, loopVars, st_stats, log>>

main_signal_term ==
  /\ pc = "signal_term"
  /\ UNCHANGED stratVars
  /\ handlers' = handlers \cup {SIGTERM}
  /\ pc' = "create_exchange"
  /\ UNCHANGED <<ret, exit_code, globals, nsig, flip_pc, loopVars, st_stats, log>>

(* ---- cleanup ---- *)

Components == {"exchange", "strategy", "webserver"}

Ptr(c) ==
  CASE c = "exchange" -> g_exchange
    [] c = "strategy" -> g_strategy
    [] c = "webserver" -> g_webserver

CleanupPc(c) ==
  CASE c = "exchange" -> "cleanup_exchange"
    [] c = "strategy" -> "cleanup_strategy"
    [] c = "webserver" -> "cleanup_webserver"

\* mutant: cleanup() tears down in construction order
CleanupOrder_forward == <<"exchange", "strategy", "webserver">>

\* the order of the three blocks of cleanup()
CleanupOrder == <<"webserver", "strategy", "exchange">>

CleanupEntry == CleanupPc(CleanupOrder[1])

CleanupAfter(c) ==
  LET i == CHOOSE k \in 1..Len(CleanupOrder) : CleanupOrder[k] = c
  IN IF i < Len(CleanupOrder) THEN CleanupPc(CleanupOrder[i + 1]) ELSE "return"

\* mutant: the blocks of cleanup() do not test the pointer
cleanup_block_nocheck(c) ==
  /\ pc = CleanupPc(c)
  /\ UNCHANGED stratVars
  /\ log' = log \o <<Call(c, "cleanup", TRUE), Call(c, "destroy", TRUE)>>
  /\ pc' = CleanupAfter(c)
  /\ UNCHANGED <<ret, exit_code, globals, sigVars, loopVars, st_stats>>

\* mutant: cleanup() stops the strategy before it cleans it up
cleanup_block_stop(c) ==
  /\ pc = CleanupPc(c)
  /\ UNCHANGED stratVars
  /\ log' = IF Ptr(c) # NULL
              THEN log \o (IF c = "strategy" THEN <<Call(c, "stop", TRUE)>> ELSE <<>>)
                       \o <<Call(c, "cleanup", TRUE), Call(c, "destroy", TRUE)>>
              ELSE log
  /\ pc' = CleanupAfter(c)
  /\ UNCHANGED <<ret, exit_code, globals, sigVars, loopVars, st_stats>>

\* one block of cleanup(): if (g_x) { g_x->cleanup(g_x); destroy_x(g_x); }
cleanup_block(c) ==
  /\ pc = CleanupPc(c)
  /\ UNCHANGED stratVars
  /\ log' = IF Ptr(c) # NULL
              THEN log \o <<Call(c, "cleanup", TRUE), Call(c, "destroy", TRUE)>>
              ELSE log
  /\ pc' = CleanupAfter(c)
  /\ UNCHANGED <<ret, exit_code, globals, sigVars, loopVars, st_stats>>

cleanup == \E c \in Components : cleanup_block(c)

\* main returns: the process ends with the value returned
main_return ==
  /\ pc = "return"
  /\ UNCHANGED stratVars
  /\ exit_code' = {ret}
  /\ pc' = "exited"
  /\ UNCHANGED <<ret, globals, sigVars, loopVars, st_stats, log>>

(* ---- init_framework ---- *)

\* mutant: init_framework misses the return after a failed step
InitNext_continue(ok, next) == next

\* where init_framework goes after a step that produced `ok`
InitNext(ok, next) == IF ok THEN next ELSE "init_failed"

init_framework_create_exchange ==
  /\ pc = "create_exchange"
  /\ UNCHANGED stratVars
  /\ \E p \in Pointers :
       /\ g_exchange' = p
       /\ log' = Append(log, Call("exchange", "create", p # NULL))
       /\ pc' = InitNext(p # NULL, "exchange_init")
  /\ UNCHANGED <<ret, exit_code, g_running, g_strategy, g_webserver, sigVars,
                 loopVars, st_stats>>

init_framework_exchange_init ==
  /\ pc = "exchange_init"
  /\ UNCHANGED stratVars
  /\ \E rc \in RcVals :
       /\ log' = Append(log, Call("exchange", "init", rc = 0))
       /\ pc' = InitNext(rc = 0, "create_strategy")
  /\ UNCHANGED <<ret, exit_code, globals, sigVars, loopVars, st_stats>>

init_framework_create_strategy ==
  /\ pc = "create_strategy"
  /\ UNCHANGED stratVars
  /\ \E p \in Pointers :
       /\ g_strategy' = p
       /\ log' = Append(log, Call("strategy", "create", p # NULL))
       /\ pc' = InitNext(p # NULL, "strategy_init")
  /\ UNCHANGED <<ret, exit_code, g_running, g_exchange, g_webserver, sigVars,
                 loopVars, st_stats>>

init_framework_strategy_init ==
  /\ pc = "strategy_init"
  /\ UNCHANGED stratVars
  /\ \E rc \in RcVals :
       /\ log' = Append(log, Call("strategy", "init", rc = 0))
       /\ st_stats' = IF rc = 0 THEN {ZeroStats} ELSE st_stats
       /\ pc' = InitNext(rc = 0, "create_webserver")
  /\ UNCHANGED <<ret, exit_code, globals, sigVars, loopVars>>

init_framework_create_webserver ==
  /\ pc = "create_webserver"
  /\ UNCHANGED stratVars
  /\ \E p \in Pointers :
       /\ g_webserver' = p
       /\ log' = Append(log, Call("webserver", "create", p # NULL))
       /\ pc' = InitNext(p # NULL, "webserver_init")
  /\ UNCHANGED <<ret, exit_code, g_running, g_exchange, g_strategy, sigVars,
                 loopVars, st_stats>>

init_framework_webserver_init ==
  /\ pc = "webserver_init"
  /\ UNCHANGED stratVars
  /\ \E rc \in RcVals :
       /\ log' = Append(log, Call("webserver", "init", rc = 0))
       /\ pc' = InitNext(rc = 0, "register_strategy")
  /\ UNCHANGED <<ret, exit_code, globals, sigVars, loopVars, st_stats>>

init_framework_register_strategy ==
  /\ pc = "register_strategy"
  /\ UNCHANGED stratVars
  /\ log' = Append(log, Call("webserver", "register_strategy", TRUE))
  /\ pc' = "webserver_start"
  /\ UNCHANGED <<ret, exit_code, globals, sigVars, loopVars, st_stats>>

init_framework ==
  \/ init_framework_create_exchange
  \/ init_framework_exchange_init
  \/ init_framework_create_strategy
  \/ init_framework_strategy_init
  \/ init_framework_create_webserver
  \/ init_framework_webserver_init
  \/ init_framework_register_strategy

(* ---- main ---- *)

\* mutant: main logs a failed startup step and carries on into the loop
StartupFailed_ignored ==
  /\ pc' = "loop"
  /\ ret' = ret

\* where main goes after a failed startup step: cleanup(); return 1;
StartupFailed ==
  /\ pc' = CleanupEntry
  /\ ret' = 1

\* if (init_framework() != 0) { cleanup(); return 1; }
main_init_failed ==
  /\ pc = "init_failed"
  /\ UNCHANGED stratVars
  /\ StartupFailed
  /\ UNCHANGED <<exit_code, globals, sigVars, loopVars, st_stats, log>>

main_webserver_start ==
  /\ pc = "webserver_start"
  /\ UNCHANGED stratVars
  /\ \E rc \in RcVals :
       /\ log' = Append(log, Call("webserver", "start", rc = 0))
       /\ IF rc # 0 THEN StartupFailed ELSE pc' = "strategy_start" /\ ret' = ret
  /\ UNCHANGED <<exit_code, globals, sigVars, loopVars, st_stats>>

main_strategy_start ==
  /\ pc = "strategy_start"
  /\ UNCHANGED stratVars
  /\ \E rc \in RcVals :
       /\ log' = Append(log, Call("strategy", "start", rc = 0))
       /\ IF rc # 0 THEN StartupFailed ELSE pc' = "loop" /\ ret' = ret
  /\ UNCHANGED <<exit_code, globals, sigVars, loopVars, st_stats>>

(* ---- main_loop ---- *)

\* "%.2f" of a double that is e eighths, in hundredths: the exact value
\* e * 12.5 rounded to the nearest integer, ties to even
Cents(e) ==
  LET n == e * 25
      lo == (n - 1) \div 2
  IN IF n % 2 = 0 THEN n \div 2
     ELSE IF lo % 2 = 0 THEN lo ELSE lo + 1

\* the text snprintf writes: {"total_profit":%.2f,"daily_profit":%.2f,"trades":%d}
FormatStatus(s) ==
  [total_profit |-> Cents(s.total_profit),
   daily_profit |-> Cents(s.daily_profit),
   trades |-> s.total_trades]

\* mutant: the loop never looks at the flag
LoopCond_forever == TRUE

\* mutant: do { ... } while (g_running): the first cycle runs untested
LoopCond_dowhile == g_running # 0 \/ calls = <<>>

\* while (g_running)
LoopCond == g_running # 0

\* mutant: a failed depth poll skips to the sleep
AfterGetDepth_skip(rc) == IF rc = 0 THEN "on_tick" ELSE "usleep"

\* mutant: the flag is also tested after the depth poll (a break)
AfterGetDepth_break(rc) ==
  IF g_running = 0 THEN "loop"
  ELSE IF rc = 0 THEN "on_tick" ELSE "get_account"

\* mutant: a failed depth poll is retried at once
AfterGetDepth_retry(rc) == IF rc = 0 THEN "on_tick" ELSE "get_depth"

\* if (get_depth(...) == 0) on_tick(...);
AfterGetDepth(rc) == IF rc = 0 THEN "on_tick" ELSE "get_account"

\* mutant: on_account is called whatever get_account returned
AfterGetAccount_always(rc) == "on_account"

\* mutant: a failed account poll skips the status update
AfterGetAccount_skip(rc) == IF rc = 0 THEN "on_account" ELSE "usleep"

\* if (get_account(...) == 0) on_account(...);
AfterGetAccount(rc) == IF rc = 0 THEN "on_account" ELSE "get_stats"

\* mutant: the status is formatted and broadcast before get_stats
AfterStep_swapped(at) ==
  CASE at = "on_tick" -> "get_account"
    [] at = "on_account" -> "snprintf"
    [] at = "snprintf" -> "broadcast"
    [] at = "broadcast" -> "get_stats"
    [] at = "get_stats" -> "usleep"
    [] at = "usleep" -> "loop"

\* mutant: the body loops back without passing the while test
AfterStep_norecheck(at) ==
  CASE at = "on_tick" -> "get_account"
    [] at = "on_account" -> "get_stats"
    [] at = "get_stats" -> "snprintf"
    [] at = "snprintf" -> "broadcast"
    [] at = "broadcast" -> "usleep"
    [] at = "usleep" -> "get_depth"

\* the straight-line part of the loop body
AfterStep(at) ==
  CASE at = "on_tick" -> "get_account"
    [] at = "on_account" -> "get_stats"
    [] at = "get_stats" -> "snprintf"
    [] at = "snprintf" -> "broadcast"
    [] at = "broadcast" -> "usleep"
    [] at = "usleep" -> "loop"

\* a buffer filled in an earlier cycle is stale in the next one
Age(b) == IF b = "cur" THEN "old" ELSE b

\* what a failed poll may leave in its output buffer
FailedFill(b) == {b, "partial"}

Min(a, b) == IF a < b THEN a ELSE b

\* a call started now counts when the flag has been cleared before it
PostCount(n) == IF g_running = 0 THEN Min(n + 1, MaxPost) ELSE n

\* top of the loop: the flag is read here and nowhere else; stats and
\* status are block locals, so each iteration starts with fresh ones
main_loop_while ==
  /\ pc = "loop"
  /\ UNCHANGED stratVars
  /\ IF LoopCond
       THEN /\ pc' = "get_depth"
            /\ ret' = ret
            /\ depth' = Age(depth)
            /\ account' = Age(account)
            /\ d_rc' = {}
            /\ a_rc' = {}
            /\ stats' = {}
            /\ status' = {}
            /\ sent' = {}
            /\ calls' = <<>>
            /\ UNCHANGED <<tick_arg, acct_arg, fail_streak, postVars>>
       ELSE /\ pc' = CleanupEntry
            /\ ret' = 0
            /\ UNCHANGED loopVars
  /\ UNCHANGED <<exit_code, globals, sigVars, st_stats, log>>

main_loop_get_depth ==
  /\ pc = "get_depth"
  /\ UNCHANGED stratVars
  /\ \E rc \in RcVals :
       /\ d_rc' = {rc}
       /\ depth' \in (IF rc = 0 THEN {"cur"} ELSE FailedFill(depth))
       /\ pc' = AfterGetDepth(rc)
  /\ calls' = Append(calls, "get_depth")
  /\ post_depth' = PostCount(post_depth)
  /\ post_bcast' = post_bcast
  /\ UNCHANGED <<ret, exit_code, globals, sigVars, account, a_rc, stats, status,
                 tick_arg, acct_arg, sent, fail_streak, st_stats, log>>

\* the strategy may update its statistics while it handles the tick
main_loop_on_tick ==
  /\ pc = "on_tick"
  /\ UNCHANGED stratVars
  /\ tick_arg' = depth
  /\ \E s \in StatsSet : st_stats' = {s}
  /\ calls' = Append(calls, "on_tick")
  /\ pc' = AfterStep("on_tick")
  /\ UNCHANGED <<postVars, ret, exit_code, globals, sigVars, depth, account, d_rc, a_rc,
                 stats, status, acct_arg, sent, fail_streak, log>>

main_loop_get_account ==
  /\ pc = "get_account"
  /\ UNCHANGED stratVars
  /\ \E rc \in RcVals :
       /\ a_rc' = {rc}
       /\ account' \in (IF rc = 0 THEN {"cur"} ELSE FailedFill(account))
       /\ pc' = AfterGetAccount(rc)
  /\ calls' = Append(calls, "get_account")
  /\ UNCHANGED <<postVars, ret, exit_code, globals, sigVars, depth, d_rc, stats, status,
                 tick_arg, acct_arg, sent, fail_streak, st_stats, log>>

main_loop_on_account ==
  /\ pc = "on_account"
  /\ UNCHANGED stratVars
  /\ acct_arg' = account
  /\ \E s \in StatsSet : st_stats' = {s}
  /\ calls' = Append(calls, "on_account")
  /\ pc' = AfterStep("on_account")
  /\ UNCHANGED <<postVars, ret, exit_code, globals, sigVars, depth, account, d_rc, a_rc,
                 stats, status, tick_arg, sent, fail_streak, log>>

main_loop_get_stats ==
  /\ pc = "get_stats"
  /\ UNCHANGED stratVars
  /\ stats' = st_stats
  /\ calls' = Append(calls, "get_stats")
  /\ pc' = AfterStep("get_stats")
  /\ UNCHANGED <<postVars, ret, exit_code, globals, sigVars, depth, account, d_rc, a_rc,
                 status, tick_arg, acct_arg, sent, fail_streak, st_stats, log>>

main_loop_snprintf ==
  /\ pc = "snprintf"
  /\ UNCHANGED stratVars
  /\ status' = {FormatStatus(s) : s \in stats}
  /\ pc' = AfterStep("snprintf")
  /\ UNCHANGED <<postVars, ret, exit_code, globals, sigVars, depth, account, d_rc, a_rc,
                 stats, tick_arg, acct_arg, sent, calls, fail_streak, st_stats, log>>

main_loop_broadcast ==
  /\ pc = "broadcast"
  /\ UNCHANGED stratVars
  /\ sent' = status
  /\ calls' = Append(calls, "broadcast")
  /\ post_bcast' = PostCount(post_bcast)
  /\ post_depth' = post_depth
  /\ pc' = AfterStep("broadcast")
  /\ UNCHANGED <<ret, exit_code, globals, sigVars, depth, account, d_rc, a_rc,
                 stats, status, tick_arg, acct_arg, fail_streak, st_stats, log>>

main_loop_usleep ==
  /\ pc = "usleep"
  /\ UNCHANGED stratVars
  /\ calls' = Append(calls, "usleep")
  /\ fail_streak' = IF d_rc # {0} /\ a_rc # {0}
                      THEN Min(fail_streak + 1, MaxStreak)
                      ELSE 0
  /\ pc' = AfterStep("usleep")
  /\ UNCHANGED <<postVars, ret, exit_code, globals, sigVars, depth, account, d_rc, a_rc,
                 stats, status, tick_arg, acct_arg, sent, st_stats, log>>

main_loop ==
  \/ main_loop_while
  \/ main_loop_get_depth
  \/ main_loop_on_tick
  \/ main_loop_get_account
  \/ main_loop_on_account
  \/ main_loop_get_stats
  \/ main_loop_snprintf
  \/ main_loop_broadcast
  \/ main_loop_usleep

(* ---- the program ---- *)

\* a step of the main thread
main ==
  \/ main_signal_int
  \/ main_signal_term
  \/ init_framework
  \/ main_init_failed
  \/ main_webserver_start
  \/ main_strategy_start
  \/ main_loop
  \/ cleanup
  \/ main_return

Signal == \E sig \in Signals : deliver_signal(sig)

\* the core sees the strategy only through its port: its steps leave the
\* state machine behind it alone, and StrategySpec exercises that one
Next == main \/ Signal

Spec == Init /\ [][Next]_vars

\* the main thread keeps running: every call it makes returns
FairSpec == Spec /\ WF_vars(main)

(* ---- the strategy behind the port ---- *)

STRATEGY_INIT == "STRATEGY_INIT"
STRATEGY_RUNNING == "STRATEGY_RUNNING"
STRATEGY_PAUSED == "STRATEGY_PAUSED"
STRATEGY_STOPPED == "STRATEGY_STOPPED"
STRATEGY_ERROR == "STRATEGY_ERROR"
StrategyStates == {STRATEGY_INIT, STRATEGY_RUNNING, STRATEGY_PAUSED,
                   STRATEGY_STOPPED, STRATEGY_ERROR}
TerminalStates == {STRATEGY_STOPPED, STRATEGY_ERROR}

Ok == "Ok"
InvalidTransition == "InvalidTransition"
ConfigInvalid == "ConfigInvalid"

TheStats == CHOOSE s \in st_stats : TRUE

\* bookkeeping of every operation on the strategy
Operation(op) ==
  /\ st_state \in StrategyStates
  /\ prev_op' = last_op
  /\ last_op' = op
  /\ from_state' = st_state

\* init(config): validates the configuration and sets STRATEGY_INIT
strategy_init ==
  /\ st_state = "none"
  /\ UNCHANGED coreVars
  /\ prev_op' = last_op
  /\ last_op' = "init"
  /\ from_state' = st_state
  /\ \E valid \in BOOLEAN :
       IF valid
         THEN /\ st_state' = STRATEGY_INIT
              /\ st_stats' = {ZeroStats}
              /\ last_rc' = Ok
         ELSE /\ last_rc' = ConfigInvalid
              /\ UNCHANGED <<st_state, st_stats>>
  /\ UNCHANGED <<successful_trades, placed, n_fin, n_live>>

\* mutant: a stopped strategy can be started again
StartAllowed_restart == {STRATEGY_INIT, STRATEGY_PAUSED, STRATEGY_STOPPED}

\* the states start() is legal in
StartAllowed == {STRATEGY_INIT, STRATEGY_PAUSED}

strategy_start ==
  /\ Operation("start")
  /\ UNCHANGED coreVars
  /\ IF st_state \in StartAllowed
       THEN st_state' = STRATEGY_RUNNING /\ last_rc' = Ok
       ELSE st_state' = st_state /\ last_rc' = InvalidTransition
  /\ UNCHANGED <<st_stats, successful_trades, placed, n_fin, n_live>>

\* mutant: stop() puts a failed strategy back to its entry state
StopTarget_reset(s) == IF s = STRATEGY_ERROR THEN STRATEGY_INIT ELSE STRATEGY_STOPPED

\* the state stop() leaves
StopTarget(s) == STRATEGY_STOPPED

\* mutant: stopping a stopped strategy is rejected
StopResult_strict(s) == IF s = STRATEGY_STOPPED THEN InvalidTransition ELSE Ok

\* what stop() returns
StopResult(s) == Ok

strategy_stop ==
  /\ Operation("stop")
  /\ UNCHANGED coreVars
  /\ st_state' = StopTarget(st_state)
  /\ last_rc' = StopResult(st_state)
  /\ UNCHANGED <<st_stats, successful_trades, placed, n_fin, n_live>>

\* the strategy pauses itself (the port has no call for it)
strategy_pause ==
  /\ Operation("pause")
  /\ UNCHANGED coreVars
  /\ st_state = STRATEGY_RUNNING
  /\ st_state' = STRATEGY_PAUSED
  /\ UNCHANGED <<st_stats, successful_trades, last_rc, placed, n_fin, n_live>>

\* an unrecoverable internal fault
strategy_fault ==
  /\ Operation("fault")
  /\ UNCHANGED coreVars
  /\ st_state # STRATEGY_ERROR
  /\ st_state' = STRATEGY_ERROR
  /\ UNCHANGED <<st_stats, successful_trades, last_rc, placed, n_fin, n_live>>

\* mutant: a paused strategy still trades on ticks
TickActive_paused(s) == s \in {STRATEGY_RUNNING, STRATEGY_PAUSED}

\* the states in which on_tick decides anything
TickActive(s) == s = STRATEGY_RUNNING

\* on_tick: in STRATEGY_RUNNING the strategy may place an order
strategy_on_tick ==
  /\ Operation("on_tick")
  /\ UNCHANGED coreVars
  /\ last_rc' = Ok
  /\ IF TickActive(st_state)
       THEN \E order \in BOOLEAN :
              /\ order => placed < MaxPlaced
              /\ placed' = IF order THEN placed + 1 ELSE placed
       ELSE placed' = placed
  /\ UNCHANGED <<st_state, st_stats, successful_trades, n_fin, n_live>>

\* on_account: risk bookkeeping only
strategy_on_account ==
  /\ Operation("on_account")
  /\ UNCHANGED coreVars
  /\ UNCHANGED <<st_state, st_stats, successful_trades, last_rc, placed, n_fin, n_live>>

\* mutant: every order event counts as a trade, finished or not
CountsTrade_every(s, is_finished) == s # STRATEGY_ERROR

\* an order event counts as a trade when it is terminal and the strategy
\* has not failed
CountsTrade(s, is_finished) == is_finished /\ s # STRATEGY_ERROR

\* on_order(symbol, is_buy, price, amount, is_finished); `good` says
\* whether the fill meets min_profit
strategy_on_order(is_finished, good) ==
  /\ Operation("on_order")
  /\ UNCHANGED coreVars
  /\ (is_finished /\ st_state # STRATEGY_ERROR) => TheStats.total_trades < MaxTrades
  /\ is_finished => n_fin < MaxOrders
  /\ n_fin' = IF is_finished THEN n_fin + 1 ELSE n_fin
  /\ n_live' = IF is_finished /\ st_state # STRATEGY_ERROR THEN n_live + 1 ELSE n_live
  /\ IF CountsTrade(st_state, is_finished)
       THEN /\ \E tp \in ProfitVals, dp \in ProfitVals :
                 st_stats' = {[total_profit |-> tp, daily_profit |-> dp,
                               total_trades |-> TheStats.total_trades + 1]}
            /\ successful_trades' = IF good THEN successful_trades + 1
                                     ELSE successful_trades
       ELSE UNCHANGED <<st_stats, successful_trades>>
  /\ UNCHANGED <<st_state, last_rc, placed>>

strategy ==
  \/ strategy_init
  \/ strategy_start
  \/ strategy_stop
  \/ strategy_pause
  \/ strategy_fault
  \/ strategy_on_tick
  \/ strategy_on_account
  \/ \E is_finished \in BOOLEAN, good \in BOOLEAN : strategy_on_order(is_finished, good)

StrategyNext == strategy

\* the strategy driven through its port by any caller
StrategySpec == Init /\ [][StrategyNext]_vars

(* ---- observations on the two histories ---- *)

Count(op) == Cardinality({i \in DOMAIN calls : calls[i] = op})
Has(op) == \E i \in DOMAIN calls : calls[i] = op

IsPrefix(a, b) == Len(a) <= Len(b) /\ \A i \in DOMAIN a : a[i] = b[i]

Reverse(q) == [i \in 1..Len(q) |-> q[Len(q) + 1 - i]]

\* the calls of one whole cycle whose polls returned d and a
ExpectedCalls(d, a) ==
  <<"get_depth">> \o (IF d = {0} THEN <<"on_tick">> ELSE <<>>)
    \o <<"get_account">> \o (IF a = {0} THEN <<"on_account">> ELSE <<>>)
    \o <<"get_stats", "broadcast", "usleep">>

Failed(rcs) == rcs # {} /\ rcs # {0}

\* the main thread has left the loop body (or never entered it)
OutsideCycle == pc \notin CyclePcs

IsCreate(e) == e.op = "create" /\ e.ok
IsDestroy(e) == e.op = "destroy"
IsCleanup(e) == e.op = "cleanup"
IsTeardown(e) == e.op \in {"cleanup", "destroy"}

CompOf(q) == [i \in DOMAIN q |-> q[i].c]
CreatedOrder == CompOf(SelectSeq(log, IsCreate))
DestroyedOrder == CompOf(SelectSeq(log, IsDestroy))
CleanedOrder == CompOf(SelectSeq(log, IsCleanup))

InLog(c, op) == \E i \in DOMAIN log : log[i].c = c /\ log[i].op = op
InLogOk(c, op, ok) == \E i \in DOMAIN log : log[i] = Call(c, op, ok)

StartupFailure == \E i \in DOMAIN log : ~log[i].ok
Started == InLogOk("strategy", "start", TRUE)

(* ---- C1 ---- *)
\* C1: once this cycle's get_depth has failed, get_account is the next call
\* or has been made, and by the time the cycle is at its sleep (or over)
\* the broadcast has been made: the failure skips nothing.
C1_DepthFailureKeepsCycle ==
  Failed(d_rc) =>
    /\ pc = "get_account" \/ Has("get_account")
    /\ (pc = "usleep" \/ OutsideCycle) => Has("broadcast")

C1_Witness ==
  /\ d_rc = {-1}
  /\ pc = "usleep"
  /\ Has("get_account")
  /\ Has("broadcast")

(* ---- C2 ---- *)
\* C2: when the flag was cleared while the main thread was inside a cycle,
\* the loop is left only after every step of that cycle has run: the calls
\* of the cycle are the whole sequence, sleep included.
C2_StopCompletesCycle ==
  (flip_pc \in CyclePcs /\ OutsideCycle) =>
    /\ calls = ExpectedCalls(d_rc, a_rc)
    /\ sent # {}

C2_Witness ==
  /\ flip_pc = "get_depth"
  /\ nsig = 2
  /\ pc = "return"
  /\ calls = ExpectedCalls({0}, {0})

(* ---- C3 ---- *)
\* C3: the flag only ever goes from 1 to 0, it does so in a step that
\* delivers a signal, and every handled signal leaves it 0.
C3_StopFlagFlipsOnce ==
  [][/\ g_running = 0 => g_running' = 0
     /\ g_running' # g_running => g_running = 1 /\ nsig' = nsig + 1
     /\ (nsig' = nsig + 1 /\ pc' # "killed") => g_running' = 0]_vars

C3_Witness ==
  /\ nsig = 2
  /\ pc # "killed"
  /\ g_running = 0
  /\ flip_pc = "usleep"

(* ---- C4 ---- *)
\* C4: in the current cycle on_tick has been called once if get_depth
\* returned 0 (and the call is not still pending) and not at all otherwise,
\* the same for on_account and get_account, and what each received is a
\* buffer filled in this very cycle.
C4_DeliverOnlyOnSuccess ==
  /\ Count("on_tick") = (IF d_rc = {0} /\ pc # "on_tick" THEN 1 ELSE 0)
  /\ Count("on_account") = (IF a_rc = {0} /\ pc # "on_account" THEN 1 ELSE 0)
  /\ Has("on_tick") => tick_arg = "cur"
  /\ Has("on_account") => acct_arg = "cur"

C4_Witness ==
  /\ pc = "usleep"
  /\ d_rc = {1}
  /\ depth \in {"old", "partial"}
  /\ a_rc = {0}
  /\ ~Has("on_tick")
  /\ Count("on_account") = 1

(* ---- C5 ---- *)
\* C5: a cycle that has reached its sleep has broadcast exactly once and a
\* cycle that has not has not broadcast yet, whatever the polls returned;
\* and the top of the loop starts another cycle whenever the flag is still
\* set, however many cycles have failed.
C5_BroadcastOncePerCycle ==
  /\ [](Count("broadcast") =
          (IF pc = "usleep" \/ (OutsideCycle /\ calls # <<>>) THEN 1 ELSE 0))
  /\ [][(pc = "loop" /\ g_running = 1 /\ pc' # pc) => pc' = "get_depth"]_vars

C5_Witness ==
  /\ fail_streak = MaxStreak
  /\ pc = "usleep"
  /\ Failed(d_rc)
  /\ Failed(a_rc)
  /\ Count("broadcast") = 1

(* ---- C6 ---- *)
\* C6: the calls of the current cycle are always an initial part of the one
\* sequence depth poll, on_tick, account poll, on_account, get_stats,
\* broadcast, sleep (on_tick and on_account present when their poll
\* succeeded); the text broadcast is the formatting of the stats read in
\* this cycle.
C6_StepOrder ==
  /\ IsPrefix(calls, ExpectedCalls(d_rc, a_rc))
  /\ Has("broadcast") => stats # {} /\ sent = {FormatStatus(s) : s \in stats}
  /\ Has("get_stats") => stats # {}

C6_Witness ==
  /\ pc = "loop"
  /\ calls = <<"get_depth", "on_tick", "get_account", "on_account",
               "get_stats", "broadcast", "usleep">>
  /\ stats = {[total_profit |-> -1, daily_profit |-> 3, total_trades |-> 1]}
  /\ sent = {[total_profit |-> -12, daily_profit |-> 38, trades |-> 1]}

(* ---- C7 ---- *)
\* C7: a cycle never holds more than one get_depth and one get_account:
\* each has been called exactly once as soon as the cycle is past it, also
\* when it failed.
C7_NoRetryInCycle ==
  /\ Count("get_depth") = (IF calls = <<>> THEN 0 ELSE 1)
  /\ Count("get_account") =
       (IF calls = <<>> \/ pc \in {"on_tick", "get_account"} THEN 0 ELSE 1)

C7_Witness ==
  /\ fail_streak >= 1
  /\ pc = "on_account"
  /\ Failed(d_rc)
  /\ Count("get_depth") = 1
  /\ Count("get_account") = 1

(* ---- C8 ---- *)
\* C8: components are cleaned up and destroyed in the reverse of the order
\* they were created in, each cleaned up right before it is destroyed; the
\* exchange is cleaned up only when no created strategy or web server is
\* undestroyed, the strategy only when no created web server is.
Undestroyed(c) == InLogOk(c, "create", TRUE) /\ ~InLog(c, "destroy")

C8_ReverseTeardown ==
  /\ IsPrefix(DestroyedOrder, Reverse(CreatedOrder))
  /\ CleanedOrder = DestroyedOrder
  /\ InLog("exchange", "cleanup") => ~Undestroyed("strategy") /\ ~Undestroyed("webserver")
  /\ InLog("strategy", "cleanup") => ~Undestroyed("webserver")
  /\ pc \in {"return", "exited"} => DestroyedOrder = Reverse(CreatedOrder)

C8_Witness ==
  /\ pc = "exited"
  /\ exit_code = {0}
  /\ CreatedOrder = <<"exchange", "strategy", "webserver">>
  /\ DestroyedOrder = <<"webserver", "strategy", "exchange">>

(* ---- C9 ---- *)
\* C9: after a failed startup step the loop is never entered, no further
\* startup step is made, the process exits with 1 (and with 1 only then),
\* and by then everything created has been torn down in reverse order.
FirstFailure == CHOOSE i \in DOMAIN log : ~log[i].ok /\ \A j \in 1..(i - 1) : log[j].ok

C9_StartupFailureAborts ==
  /\ StartupFailure =>
       /\ pc \in {"init_failed", "cleanup_webserver", "cleanup_strategy",
                  "cleanup_exchange", "return", "exited"}
       /\ calls = <<>>
       /\ \A j \in DOMAIN log : j > FirstFailure => IsTeardown(log[j])
       /\ pc \in {"return", "exited"} => ret = 1 /\ DestroyedOrder = Reverse(CreatedOrder)
  /\ pc = "exited" => (exit_code = {1} <=> StartupFailure)

C9_Witness ==
  /\ pc = "exited"
  /\ exit_code = {1}
  /\ InLogOk("strategy", "init", FALSE)
  /\ DestroyedOrder = <<"strategy", "exchange">>

(* ---- C10 ---- *)
\* C10: once startup has succeeded and the flag is cleared, the process
\* ends with exit code 0 (every call of the main thread returning), and on
\* the way no step of a cycle is cut short: the body is left only through
\* its sleep.
C10_SignalLeadsToExit ==
  /\ (Started /\ g_running = 0) ~> (pc = "exited" /\ exit_code = {0})
  /\ [][(pc \in CyclePcs /\ g_running = 0 /\ pc' # pc) =>
          (pc' \in CyclePcs \/ (pc = "usleep" /\ pc' = "loop"))]_vars

C10_Witness ==
  /\ pc = "exited"
  /\ exit_code = {0}
  /\ flip_pc \in CyclePcs
  /\ Started

(* ---- C11 ---- *)
\* C11: after the flag has been cleared at most one get_depth and at most
\* one broadcast are started; none of either when the flag was cleared at
\* the while test itself, and no get_depth when it was cleared later in
\* the body than the depth poll.
C11_ShutdownWithinOneCycle ==
  /\ post_depth <= 1
  /\ post_bcast <= 1
  /\ flip_pc \notin CyclePcs => post_depth = 0 /\ post_bcast = 0
  /\ flip_pc \in CyclePcs \ {"get_depth"} => post_depth = 0
  /\ flip_pc = "usleep" => post_bcast = 0

C11_Witness ==
  /\ pc = "exited"
  /\ flip_pc = "get_depth"
  /\ post_depth = 1
  /\ post_bcast = 1

(* ---- C12 ---- *)
\* C12: a start() made in STRATEGY_INIT or STRATEGY_PAUSED returns Ok and
\* leaves STRATEGY_RUNNING; made in any other state (STRATEGY_STOPPED and
\* STRATEGY_ERROR among them) it returns InvalidTransition and changes
\* neither the state nor the statistics.
C12_StartOnlyFromInitOrPaused ==
  [][last_op' = "start" =>
       IF st_state \in {STRATEGY_INIT, STRATEGY_PAUSED}
         THEN st_state' = STRATEGY_RUNNING /\ last_rc' = Ok
         ELSE /\ last_rc' = InvalidTransition
              /\ UNCHANGED <<st_state, st_stats, successful_trades>>]_vars

C12_Witness ==
  /\ last_op = "start"
  /\ from_state = STRATEGY_STOPPED
  /\ st_state = STRATEGY_STOPPED
  /\ last_rc = InvalidTransition
  /\ TheStats.total_trades = 1

(* ---- C13 ---- *)
\* C13: whatever state stop() was called in, it has returned Ok and the
\* state is STRATEGY_STOPPED, also when the call before it was a stop().
C13_StopAlwaysStops ==
  last_op = "stop" =>
    /\ from_state \in StrategyStates
    /\ st_state = STRATEGY_STOPPED
    /\ last_rc = Ok

C13_Witness ==
  /\ prev_op = "stop"
  /\ last_op = "stop"
  /\ from_state = STRATEGY_STOPPED
  /\ st_state = STRATEGY_STOPPED
  /\ last_rc = Ok

(* ---- C14 ---- *)
\* C14: an on_tick made in a state other than STRATEGY_RUNNING returns
\* without error and changes neither the state, nor the statistics, nor the
\* number of orders placed.
C14_TickOutsideRunningIsNoOp ==
  [][(last_op' = "on_tick" /\ st_state # STRATEGY_RUNNING) =>
       /\ last_rc' = Ok
       /\ UNCHANGED <<st_state, st_stats, successful_trades, placed>>]_vars

C14_Witness ==
  /\ last_op = "on_tick"
  /\ from_state = STRATEGY_PAUSED
  /\ st_state = STRATEGY_PAUSED
  /\ placed = 1
  /\ last_rc = Ok

(* ---- C15 ---- *)
\* C15: from STRATEGY_STOPPED or STRATEGY_ERROR every step leads to
\* STRATEGY_STOPPED or STRATEGY_ERROR again, and no step places an order.
C15_TerminalStatesStay ==
  [][(st_state \in TerminalStates) =>
       (st_state' \in TerminalStates /\ placed' = placed)]_vars

C15_Witness ==
  /\ prev_op = "start"
  /\ last_op = "on_tick"
  /\ from_state = STRATEGY_ERROR
  /\ st_state = STRATEGY_ERROR
  /\ placed = 1

AllStarted ==
  /\ InLogOk("exchange", "init", TRUE)
  /\ InLogOk("strategy", "init", TRUE)
  /\ InLogOk("webserver", "init", TRUE)
  /\ InLogOk("webserver", "start", TRUE)
  /\ InLogOk("strategy", "start", TRUE)

TeardownBegun == \E i \in DOMAIN log : IsTeardown(log[i])

C17_PortCallsOnlyWhileUp ==
  /\ []((pc \in CyclePcs \/ calls # <<>>) => AllStarted)
  /\ [](pc \in CyclePcs => ~TeardownBegun)
  /\ [][TeardownBegun => calls' = calls]_vars

C17_Witness ==
  /\ pc = "return"
  /\ calls = ExpectedCalls({0}, {1})
  /\ AllStarted
  /\ DestroyedOrder = <<"webserver", "strategy", "exchange">>

(* ---- C18 ---- *)
\* C18: both handlers are installed before init_framework begins; when the
\* flag was cleared before the loop was reached no cycle is ever run, and
\* if startup succeeded the process ends with exit code 0 after the full
\* teardown; a while test that finds the flag cleared goes straight to
\* cleanup.
StartupPcs == {"create_exchange", "exchange_init", "create_strategy",
               "strategy_init", "create_webserver", "webserver_init",
               "register_strategy", "webserver_start", "strategy_start"}

C18_SignalDuringStartupKept ==
  /\ [](pc \notin {"signal_int", "signal_term", "killed"} => handlers = Signals)
  /\ [](flip_pc \in StartupPcs \cup {"signal_term"} =>
          /\ pc \notin CyclePcs
          /\ calls = <<>>
          /\ (pc = "exited" /\ Started) =>
               /\ exit_code = {0}
               /\ DestroyedOrder = <<"webserver", "strategy", "exchange">>)
  /\ [][(pc = "loop" /\ g_running = 0 /\ pc' # pc) =>
          (pc' = "cleanup_webserver" /\ calls' = calls)]_vars

C18_Witness ==
  /\ pc = "exited"
  /\ flip_pc = "exchange_init"
  /\ Started
  /\ exit_code = {0}
  /\ calls = <<>>
  /\ post_depth = 0

(* ---- C19 ---- *)
\* C19: the calls the core makes are create, init, register_strategy,
\* start, cleanup and destroy on the components and get_depth, on_tick,
\* get_account, on_account, get_stats and broadcast in the loop, nothing
\* else (no stop, on_order, get_state, place_order); the call it makes on
\* the strategy after start is cleanup.
IsStrategyCall(e) == e.c = "strategy"
OpOf(q) == [i \in DOMAIN q |-> q[i].op]
StrategyOps == OpOf(SelectSeq(log, IsStrategyCall))

C19_CoreCallsOnlyItsPorts ==
  /\ \A i \in DOMAIN log :
       log[i].op \in {"create", "init", "register_strategy", "start", "cleanup", "destroy"}
  /\ \A i \in DOMAIN calls :
       calls[i] \in {"get_depth", "on_tick", "get_account", "on_account",
                     "get_stats", "broadcast", "usleep"}
  /\ \A i \in DOMAIN StrategyOps :
       (StrategyOps[i] = "start" /\ i < Len(StrategyOps)) => StrategyOps[i + 1] = "cleanup"
  /\ (pc = "exited" /\ exit_code = {0}) =>
       StrategyOps = <<"create", "init", "start", "cleanup", "destroy">>

C19_Witness ==
  /\ pc = "exited"
  /\ exit_code = {0}
  /\ Has("on_tick")
  /\ StrategyOps = <<"create", "init", "start", "cleanup", "destroy">>

(* ---- C20 ---- *)
\* C20: no component is created, initialized, started, cleaned up or
\* destroyed more than once, and when main returns each component that was
\* created (its init having succeeded or not) has been cleaned up and
\* destroyed exactly once and each that was not, not at all.
LogCount(c, op) == Cardinality({i \in DOMAIN log : log[i].c = c /\ log[i].op = op})

C20_CleanupExactlyOnce ==
  \A c \in Components :
    /\ \A op \in {"create", "init", "start", "cleanup", "destroy"} : LogCount(c, op) <= 1
    /\ pc \in {"return", "exited"} =>
         /\ LogCount(c, "cleanup") = (IF InLogOk(c, "create", TRUE) THEN 1 ELSE 0)
         /\ LogCount(c, "destroy") = LogCount(c, "cleanup")

C20_Witness ==
  /\ pc = "exited"
  /\ exit_code = {1}
  /\ InLogOk("strategy", "create", FALSE)
  /\ LogCount("exchange", "cleanup") = 1
  /\ LogCount("strategy", "cleanup") = 0
  /\ LogCount("webserver", "cleanup") = 0

====
